---- MODULE Spec2Model ----
(***************************************************************************)
(* Model of the Statistics Access Layer of stadata-x                        *)
(* (src/stadata_x/api_client.py): the retrying invoker, the domain cache    *)
(* and the public operations of ApiClient.  One ApiClient runs one public   *)
(* operation at a time; the operation is split at its suspension points     *)
(* (await of a provider call, await of asyncio.sleep).  The cache file is   *)
(* shared with another process that may be rewriting it.                     *)
(***************************************************************************)
EXTENDS Integers, Sequences, FiniteSets, TLC

VARIABLES
    cfgToken,   \* the credential held by the configuration collaborator
    token,      \* ApiClient.token
    client,     \* ApiClient.client: "sdk" (a stadata.Client) or "None"
    now,        \* wall clock, in days
    cache,      \* the cache file: [exists, mtime, text, readable]
    dirWritable,\* whether CONFIG_DIR / CACHE_FILE can be created and written
    ext,        \* another process writing the cache file: [pc, todo, off]
    op,         \* the public operation in progress or last finished
    pc,         \* position of the operation: "idle", "call", "sleep", "done"
    fn,         \* the provider function the retrying invoker is calling
    attempt,    \* loop variable of _api_call_with_retry
    log,        \* provider calls and sleeps of the current operation
    args,       \* arguments and locals of the operation in progress
    remote,     \* the provider's keyed lookup data: domain -> model -> response
    fetches,    \* the four lookups of asyncio.gather: model -> state
    target,     \* target_domain of the fetch_for_domain in progress
    meta,       \* metadata of the requested domain, while the fallback runs
    dest,       \* the file at the path download_table writes: [exists, bytes]
    seen,       \* history: what the last cache read of list_domains met
    screen,     \* the table builder screen: its fields and what it shows
    explorer,   \* the DataExplorer widget: its fields, its table, its handlers
    result      \* what the last finished operation returned or raised

vars == <<cfgToken, token, client, now, cache, dirWritable, ext, op, pc, fn,
          attempt, log, args, remote, fetches, target, meta, dest, seen, screen,
          explorer, result>>

(* The state of the keyed lookups *)
lookup == <<args, remote, fetches, target, meta>>

----------------------------------------------------------------------------
(* Bounds of the model *)

TickBudget == 1          \* how many days the clock may advance
MaxDomains == 2          \* longest domain list the provider returns
MaxExtRuns == 1          \* how many times the other process rewrites the cache file
MaxCols == 2             \* widest table handed to _clean_bps_dataframe on its own
MaxRows == 2             \* longest table handed to _clean_bps_dataframe on its own
MaxPending == 2          \* RowSelected messages posted and not yet handled

(* Program constants *)

max_retries == 3
base_delay == 1
CACHE_DURATION == 7

----------------------------------------------------------------------------
(* Exceptions: a class and, for HTTPError, the response status *)

Exc(c) == [cls |-> c, status |-> 0]
HTTPError(s) == [cls |-> "HTTPError", status |-> s]

NoExc == Exc("")

Statuses == {401, 404, 429, 500}

(* What a provider call can end in *)
ProviderErrors ==
    {HTTPError(s) : s \in Statuses} \cup {Exc("ConnectionError"), Exc("Timeout")}

(* The builtin classes an exception is an instance of.  The requests
   exceptions derive from IOError; JSONDecodeError and UnicodeDecodeError are
   two distinct subclasses of ValueError. *)
Bases(e) ==
    CASE e.cls = "HTTPError"          -> {"HTTPError", "IOError"}
      [] e.cls = "ConnectionError"    -> {"ConnectionError", "IOError"}
      [] e.cls = "Timeout"            -> {"Timeout", "IOError"}
      [] e.cls = "OSError"            -> {"IOError"}
      [] e.cls = "JSONDecodeError"    -> {"JSONDecodeError", "ValueError"}
      [] e.cls = "UnicodeDecodeError" -> {"UnicodeDecodeError", "ValueError"}
      [] OTHER                        -> {e.cls}

IsInstance(e, classes) == Bases(e) \cap classes # {}

----------------------------------------------------------------------------
(* Values *)

DataFrame(rows) == [type |-> "DataFrame", rows |-> rows]
StrValue == [type |-> "str", rows |-> <<>>]
NoValue == [type |-> "None", rows |-> <<>>]

Ok(v) == [kind |-> "ok", val |-> v, exc |-> NoExc]
Raise(e) == [kind |-> "exc", val |-> NoValue, exc |-> e]
NoResult == [kind |-> "none", val |-> NoValue, exc |-> NoExc]

(* Domain records, named by their domain_id *)
DomainRow(i) == [domain_id |-> i, domain_name |-> i + 100]

RECURSIVE FirstRows(_)
FirstRows(n) == IF n = 0 THEN <<>> ELSE Append(FirstRows(n - 1), DomainRow(n))

(* The domain lists the provider may answer list_domain with *)
DomainLists == {FirstRows(n) : n \in 0..MaxDomains}

(* The list a previous run of list_domains left in the cache file *)
OldRows == <<DomainRow(0)>>

----------------------------------------------------------------------------
(* The cache file's text, as a sequence of tokens.  df.to_json(f,
   orient="records") writes "[", one object per row, "]"; the index of the
   frame is not written. *)

Open == [t |-> "[", row |-> DomainRow(0)]
Close == [t |-> "]", row |-> DomainRow(0)]
Obj(r) == [t |-> "obj", row |-> r]
Num == [t |-> "num", row |-> DomainRow(0)]       \* a JSON number
BadByte == [t |-> "xff", row |-> DomainRow(0)]   \* a byte that is not UTF-8
Nul == [t |-> "nul", row |-> DomainRow(0)]       \* a hole left by a seek past the end

RECURSIVE ObjTokens(_)
ObjTokens(rows) ==
    IF rows = <<>> THEN <<>> ELSE <<Obj(Head(rows))>> \o ObjTokens(Tail(rows))

to_json(df) == <<Open>> \o ObjTokens(df.rows) \o <<Close>>

(* json.load(f): f.read() decodes the bytes, then the text is parsed.
   The result is a Python value: a list of items, or a number. *)
PyList(items) == [py |-> "list", items |-> items]
PyNum == [py |-> "num", items |-> <<>>]

Inner(text) == SubSeq(text, 2, Len(text) - 1)

IsArrayText(text) ==
    /\ Len(text) >= 2
    /\ text[1] = Open
    /\ text[Len(text)] = Close
    /\ \A i \in 2..(Len(text) - 1) : text[i].t \in {"obj", "num"}

json_load(text) ==
    IF \E i \in 1..Len(text) : text[i] = BadByte
    THEN [exc |-> Exc("UnicodeDecodeError"), data |-> PyNum]
    ELSE IF IsArrayText(text)
    THEN [exc |-> NoExc, data |-> PyList(Inner(text))]
    ELSE IF text = <<Num>>
    THEN [exc |-> NoExc, data |-> PyNum]
    ELSE [exc |-> Exc("JSONDecodeError"), data |-> PyNum]

(* The row pandas makes of a list item that is a number, not an object *)
ScalarRow == [domain_id |-> -1, domain_name |-> -1]

RECURSIVE RowsOf(_)
RowsOf(items) ==
    IF items = <<>> THEN <<>>
    ELSE <<(IF Head(items).t = "obj" THEN Head(items).row ELSE ScalarRow)>>
         \o RowsOf(Tail(items))

(* pd.DataFrame(data): a frame from a list, ValueError from a scalar *)
pd_DataFrame(data) ==
    IF data.py = "list"
    THEN [exc |-> NoExc, df |-> DataFrame(RowsOf(data.items))]
    ELSE [exc |-> Exc("ValueError"), df |-> DataFrame(<<>>)]

----------------------------------------------------------------------------
(* Error reclassification *)

(* The except clauses of the wrapper of handle_api_errors, in order *)
(* A server-error test that leaves status 500 out *)
handle_api_errorsAbove500(e) ==
    IF IsInstance(e, {"ConnectionError"}) THEN Exc("NoInternetError")
    ELSE IF IsInstance(e, {"HTTPError"})
    THEN IF e.status = 401 THEN Exc("ApiTokenError")
         ELSE IF e.status > 500 THEN Exc("BpsServerError")
         ELSE e
    ELSE IF IsInstance(e, {"Timeout"}) THEN Exc("NoInternetError")
    ELSE e

handle_api_errors(e) ==
    IF IsInstance(e, {"ConnectionError"}) THEN Exc("NoInternetError")
    ELSE IF IsInstance(e, {"HTTPError"})
    THEN IF e.status = 401 THEN Exc("ApiTokenError")
         ELSE IF e.status >= 500 THEN Exc("BpsServerError")
         ELSE e
    ELSE IF IsInstance(e, {"Timeout"}) THEN Exc("NoInternetError")
    ELSE e

(* The except clauses closing list_domains, in order *)
list_domains_except(e) ==
    IF IsInstance(e, {"ConnectionError"}) THEN Exc("NoInternetError")
    ELSE IF IsInstance(e, {"HTTPError"})
    THEN IF e.status = 401 THEN Exc("ApiTokenError")
         ELSE IF e.status >= 500 THEN Exc("BpsServerError")
         ELSE e
    ELSE IF IsInstance(e, {"Timeout"}) THEN Exc("NoInternetError")
    ELSE e

(* A readiness that looks at the token, not at the client built from it *)
HasToken == token # "None"

is_ready == client # "None"

----------------------------------------------------------------------------
(* The retrying invoker, _api_call_with_retry *)

RECURSIVE Pow2(_)
Pow2(n) == IF n = 0 THEN 1 ELSE 2 * Pow2(n - 1)

(* A backoff that starts one doubling late *)
DelayDoubledEarly(a) == base_delay * Pow2(a + 1)

Delay(a) == base_delay * Pow2(a)

(* A retry on every HTTP error status *)
ShouldRetryAnyStatus(e, a) ==
    /\ e.cls = "HTTPError"
    /\ a < max_retries - 1

(* Whether the except HTTPError clause sleeps and continues the loop *)
ShouldRetry(e, a) ==
    /\ e.cls = "HTTPError"
    /\ e.status = 429
    /\ a < max_retries - 1

(* Entries of the log *)
CallEv(f, out, k, d) ==
    [ev |-> "call", fn |-> f, out |-> out, n |-> 0, key |-> k, domain |-> d]
RequestEv(f, k, d) ==
    [ev |-> "request", fn |-> f, out |-> NoExc, n |-> 0, key |-> k, domain |-> d]
SleepEv(d) ==
    [ev |-> "sleep", fn |-> "", out |-> NoExc, n |-> d, key |-> "", domain |-> ""]
FailEv(f, e, d) ==
    [ev |-> "failed", fn |-> f, out |-> e, n |-> 0, key |-> "", domain |-> d]

----------------------------------------------------------------------------
(* The domain cache: the read path of list_domains *)

Hit(df) == [how |-> "hit", df |-> df, exc |-> NoExc]
Miss == [how |-> "miss", df |-> DataFrame(<<>>), exc |-> NoExc]
Crash(e) == [how |-> "raise", df |-> DataFrame(<<>>), exc |-> e]

(* A freshness test that is a day short *)
ReadBodyDayShort(c, t) ==
    IF ~(t - c.mtime < CACHE_DURATION - 1) THEN Miss
    ELSE IF ~c.readable THEN Crash(Exc("OSError"))
    ELSE LET j == json_load(c.text)
             d == pd_DataFrame(j.data)
         IN IF j.exc # NoExc THEN Crash(j.exc)
            ELSE IF d.exc # NoExc THEN Crash(d.exc)
            ELSE Hit(d.df)

(* What the try block raises, or the frame it returns *)
ReadBody(c, t) ==
    IF ~(t - c.mtime < CACHE_DURATION) THEN Miss
    ELSE IF ~c.readable THEN Crash(Exc("OSError"))
    ELSE LET j == json_load(c.text)
             d == pd_DataFrame(j.data)
         IN IF j.exc # NoExc THEN Crash(j.exc)
            ELSE IF d.exc # NoExc THEN Crash(d.exc)
            ELSE Hit(d.df)

(* An except clause that names IOError alone *)
ReadCacheIOErrorOnly(c, t) ==
    IF ~c.exists THEN Miss
    ELSE LET r == ReadBody(c, t)
         IN IF r.how = "raise" /\ IsInstance(r.exc, {"IOError"})
            THEN Miss
            ELSE r

ReadCache(c, t) ==
    IF ~c.exists THEN Miss
    ELSE LET r == ReadBody(c, t)
         IN IF r.how = "raise" /\ IsInstance(r.exc, {"IOError", "JSONDecodeError"})
            THEN Miss
            ELSE r

(* The write path: mkdir, open(CACHE_FILE, "w"), to_json, close *)
WrittenCache(df, t) ==
    [exists |-> TRUE, mtime |-> t, text |-> to_json(df), readable |-> TRUE]

(* Writing one token at an offset of the file, as a second writer does after
   the file was truncated under it: the gap reads as NUL bytes *)
RECURSIVE Pad(_, _)
Pad(text, n) == IF Len(text) >= n THEN text ELSE Pad(Append(text, Nul), n)

WriteAt(text, off, tok) ==
    IF Len(text) > off
    THEN [text EXCEPT ![off + 1] = tok]
    ELSE Append(Pad(text, off), tok)

----------------------------------------------------------------------------
(* What the provider answers a call with, when it answers *)

TableRow == DomainRow(1)

(* A static table: column labels, row labels (index) and rows of cells.  A
   label is a string (its words; no word is the empty string ""), NaN, or,
   in a MultiIndex, a tuple of such labels, one per header level. *)
Str(words) == [k |-> "str", words |-> words]
NaN == [k |-> "nan", words |-> <<>>]
Tuple(levels) == [k |-> "tuple", levels |-> levels]
Unnamed(i) == [k |-> "unnamed", i |-> i]
NumLabel(words) == [k |-> "num", words |-> words]

Table(multi, columns, index, rows) ==
    [type |-> "DataFrame", multi |-> multi, columns |-> columns, index |-> index,
     rows |-> rows]

FlatTable ==
    Table(FALSE, <<Str(<<"Provinsi">>), Str(<<>>), NaN>>, <<0, 1, 2>>,
          << <<"ACEH", "15", "NaN">>, <<"NaN", "NaN", "NaN">>, <<"BALI", "NaN", "7">> >>)

HeaderTable ==
    Table(TRUE,
          <<Tuple(<<Str(<<"Luas">>), Str(<<"nan">>)>>),
            Tuple(<<NaN, Str(<<>>)>>),
            Tuple(<<Str(<<>>), Str(<<"Panen">>)>>)>>,
          <<0>>, << <<"1", "2", "3">> >>)

EmptyTable == Table(FALSE, <<>>, <<>>, <<>>)

ProviderValues(f) ==
    CASE f = "list_domain"     -> {DataFrame(rows) : rows \in DomainLists}
      [] f = "view_statictable" -> {FlatTable, HeaderTable, EmptyTable, StrValue}
      [] OTHER                  -> {DataFrame(<<TableRow>>), DataFrame(<<>>)}

RetriedOps ==
    {"list_domains", "list_static_tables", "view_static_table", "list_dynamic_tables",
     "download_table"}

ProviderFn(o) ==
    CASE o = "list_domains"        -> "list_domain"
      [] o = "list_static_tables"  -> "list_statictable"
      [] o = "view_static_table"   -> "view_statictable"
      [] o = "list_dynamic_tables" -> "list_dynamictable"
      [] OTHER                     -> "view_statictable"

----------------------------------------------------------------------------
(* The keyed lookup endpoint: responses as Python values.  A dict is a
   function from its keys; a list is a sequence. *)

PyDict(d) == [py |-> "dict", d |-> d]
PyStr(x) == [py |-> "str", s |-> x]
PyNone == [py |-> "None"]

PyGet(v, k, default) == IF k \in DOMAIN v.d THEN v.d[k] ELSE default

Models == <<"vervar", "turvar", "th", "turth">>
ModelSet == {Models[i] : i \in 1..Len(Models)}

(* The per-category field-name tables of fetch_for_domain: <<src, dst>> *)
Mapping(m) ==
    CASE m = "vervar" -> << <<"item_ver_id", "id">>, <<"vervar", "label">>,
                            <<"kode_ver_id", "code">>, <<"group_ver_id", "group">>,
                            <<"name_group_ver_id", "group_name">> >>
      [] m = "turvar" -> << <<"turvar_id", "id">>, <<"turvar", "label">>,
                            <<"group_turvar_id", "group">>,
                            <<"name_group_turvar", "group_name">> >>
      [] m = "th"     -> << <<"th_id", "id">>, <<"th", "label">> >>
      [] OTHER        -> << <<"turth_id", "id">>, <<"turth", "label">>,
                            <<"group_turth_id", "group">>,
                            <<"name_group_turth", "group_name">> >>

SrcOf(mapping, i) == mapping[i][1]
DstOf(mapping, i) == mapping[i][2]

(* `src in item`, for the items the provider sends: a key of a dict, a
   substring of a string (here: the whole string) *)
Contains(item, src) ==
    CASE item.py = "dict" -> src \in DOMAIN item.d
      [] item.py = "str"  -> item.s = src
      [] OTHER            -> FALSE

(* The loop body raises TypeError: `src in item` on a number or None, and
   item[src] on a string *)
ItemRaises(item, mapping) ==
    \/ item.py \in {"num", "None"}
    \/ /\ item.py = "str"
       /\ \E i \in 1..Len(mapping) : Contains(item, SrcOf(mapping, i))

(* The new_item built from one item of data[1]: dst -> item[src] for every
   src the item has *)
NewItem(item, mapping) ==
    LET hits == {i \in 1..Len(mapping) : Contains(item, SrcOf(mapping, i))}
    IN [k \in {DstOf(mapping, i) : i \in hits} |->
          item.d[SrcOf(mapping, CHOOSE i \in hits : DstOf(mapping, i) = k)]]

RECURSIVE ExtractItems(_, _)
ExtractItems(list, mapping) ==
    IF list = <<>> THEN <<>>
    ELSE LET new_item == NewItem(Head(list), mapping)
         IN (IF DOMAIN new_item # {} THEN <<new_item>> ELSE <<>>)
            \o ExtractItems(Tail(list), mapping)

(* What extract_list ends in: the list it returns, or the exception that
   leaves it *)
Returned(items) == [exc |-> NoExc, items |-> items]
Raised(e) == [exc |-> e, items |-> <<>>]

extract_list(data_json, mapping) ==
    IF data_json.py # "dict" THEN Raised(Exc("AttributeError"))
    ELSE IF PyGet(data_json, "data-availability", PyNone) # PyStr("available")
    THEN Returned(<<>>)
    ELSE LET data == PyGet(data_json, "data", PyList(<<>>))
         IN IF data.py = "list" /\ Len(data.items) = 2 /\ data.items[2].py = "list"
            THEN LET list == data.items[2].items
                 IN IF \E i \in 1..Len(list) : ItemRaises(list[i], mapping)
                    THEN Raised(Exc("TypeError"))
                    ELSE Returned(ExtractItems(list, mapping))
            ELSE Returned(<<>>)

(* unescape(label).strip(), on the labels the provider uses *)
unescape_strip(label) ==
    CASE label = " Jawa &amp; Bali " -> "Jawa & Bali"
      [] label = "2023 "             -> "2023"
      [] OTHER                       -> label

RECURSIVE CleanLabels(_)
CleanLabels(items) ==
    IF items = <<>> THEN <<>>
    ELSE LET item == Head(items)
         IN <<(IF "label" \in DOMAIN item
               THEN [item EXCEPT !["label"] = unescape_strip(item["label"])]
               ELSE item)>> \o CleanLabels(Tail(items))

(* Responses of the provider *)
LabelOf(m) ==
    CASE m = "vervar" -> " Jawa &amp; Bali "
      [] m = "th"     -> "2023 "
      [] OTHER        -> m

ItemOf(m, d) ==
    PyDict((SrcOf(Mapping(m), 1) :> d) @@ (SrcOf(Mapping(m), 2) :> LabelOf(m)))

Listing(m, d) ==
    PyDict(("data-availability" :> PyStr("available")) @@
           ("data" :> PyList(<<PyDict(<<>>), PyList(<<ItemOf(m, d)>>)>>)))

NotAvailable ==
    PyDict(("data-availability" :> PyStr("list-not-available")) @@ ("data" :> PyStr("")))

OneElement ==
    PyDict(("data-availability" :> PyStr("available")) @@
           ("data" :> PyList(<<PyDict(<<>>)>>)))

(* Items that are not records: numbers, or text *)
ItemsOf(item) ==
    PyDict(("data-availability" :> PyStr("available")) @@
           ("data" :> PyList(<<PyDict(<<>>), PyList(<<item>>)>>)))

(* A response body that is a JSON array *)
NotADict == PyList(<<>>)

OddShapes == {ItemsOf(PyNum), ItemsOf(PyStr("n/a")), NotADict}

(* The data lookup: datacontent maps keys (digit strings, here sequences of
   digits) to values; keys keeps the order of the mapping *)
PyMapping(keys, d) == [py |-> "dict", keys |-> keys, d |-> d]

DataKey(dom, horizontal) ==
    dom \o <<2, 3>> \o <<0, 1>> \o <<0, 0, 0, 0, 1>> \o horizontal \o <<0, 0, 0>>

DomainDigits(d) == IF d = "0000" THEN <<0, 0, 0, 0>> ELSE <<3, 5, 0, 0>>

Content(d) ==
    LET k1 == DataKey(DomainDigits(d), <<0, 0, 1>>)
        k2 == DataKey(DomainDigits(d), <<0, 0, 2>>) \o <<9, 9>>
    IN PyMapping(<<k1, k2>>, (k1 :> 70) @@ (k2 :> 71))

DataOf(d, content) ==
    PyDict(("data-availability" :> PyStr("available")) @@ ("datacontent" :> content))

DataNotAvailable ==
    PyDict("data-availability" :> PyStr("data-not-available"))

DataResponses(d) ==
    { DataOf(d, Content(d)),
      DataOf(d, PyMapping(<<>>, <<>>)),
      DataOf(d, PyList(<<>>)),
      PyDict("data-availability" :> PyStr("available")),
      DataNotAvailable }

Domains == {"0000", "3500"}

(* What one domain holds for the four models and for the data lookup: every
   list, or all but one *)
Holding(d, gap, r, data) ==
    [m \in ModelSet \cup {"data"} |->
        IF m = "data" THEN data ELSE IF m = gap THEN r ELSE Listing(m, d)]

FullHolding(d) == Holding(d, "", NotAvailable, DataOf(d, Content(d)))

DomainHoldings(d) ==
    {FullHolding(d)}
    \cup {Holding(d, g, NotAvailable, DataNotAvailable) : g \in ModelSet}
    \cup {Holding(d, "th", OneElement, DataNotAvailable)}
    \cup {Holding(d, "turvar", r, DataNotAvailable) : r \in OddShapes}
    \cup {Holding(d, "", NotAvailable, r) : r \in DataResponses(d)}

(* The provider's data: what each domain holds *)
Remotes ==
    {[d \in Domains |-> IF d = "0000" THEN h0 ELSE FullHolding(d)] :
        h0 \in DomainHoldings("0000")}
    \cup
    {[d \in Domains |-> IF d = "0000" THEN h0 ELSE h] :
        h0 \in {FullHolding("0000"), Holding("0000", "turvar", NotAvailable, DataNotAvailable)},
        h \in DomainHoldings("3500")}

DefaultRemote == [d \in Domains |-> FullHolding(d)]

NoArgs == [domain_id |-> "", source_domain |-> "None", key |-> "None"]
ExportArgs(format, overwrite) == [format |-> format, overwrite |-> overwrite]
NoFile == [exists |-> FALSE, bytes |-> <<>>]
NoFetches == [m \in ModelSet |-> "none"]
NoRead == [how |-> "none", fresh |-> FALSE, partial |-> FALSE]
NoMeta == [source_domain |-> "None"]
NoScreen ==
    [state |-> "none", domain_id |-> "", metadata_source |-> "", metadata |-> NoMeta,
     built |-> FALSE, disabled |-> TRUE, status |-> "", preview |-> "", last_df |-> NoValue,
     requested |-> "", file_format |-> "", notice |-> ""]

NoLoad == [kind |-> "none", by |-> "none"]

(* DataExplorer.__init__ and compose: the widget as it is mounted.  None
   is the empty tuple in selected_domain *)
NewExplorer ==
    [current_view |-> "domain", selected_domain |-> <<>>, is_loading |-> FALSE,
     locked |-> FALSE, table_type |-> "static",
     shown |-> "none", table_disabled |-> FALSE,
     selector_disabled |-> TRUE, pressed |-> "static",
     load |-> NoLoad, running |-> 0, pending |-> 0, handled |-> "",
     posted |-> "", posted_for |-> ""]

----------------------------------------------------------------------------
(* Initial states: the configuration, the file system and the constructor *)

InitialTexts ==
    { to_json(DataFrame(OldRows)),   \* what a previous run wrote
      <<>>,                          \* an empty file
      <<Open, Obj(DomainRow(0))>>,   \* a file cut short
      <<BadByte>>,                   \* not UTF-8
      <<Num>>,                       \* JSON, but a number
      <<Open, Num, Close>> }         \* JSON, a list of numbers

NoCache == [exists |-> FALSE, mtime |-> 0, text |-> <<>>, readable |-> TRUE]

InitialCaches ==
    {NoCache}
    \cup {[exists |-> TRUE, mtime |-> m, text |-> x, readable |-> TRUE] :
            m \in {0, 1}, x \in InitialTexts}
    \cup {[exists |-> TRUE, mtime |-> 1,
           text |-> to_json(DataFrame(OldRows)), readable |-> FALSE]}

ExtIdle == [pc |-> "idle", todo |-> <<>>, off |-> 0, runs |-> 0]

(* The caches the client is run against when the cache is not the subject *)
SomeCaches ==
    { NoCache,
      [exists |-> TRUE, mtime |-> 1,
       text |-> to_json(DataFrame(OldRows)), readable |-> TRUE],
      [exists |-> TRUE, mtime |-> 0,
       text |-> to_json(DataFrame(OldRows)), readable |-> TRUE] }

(* ApiClient.__init__(token): the argument or the stored token; the SDK
   client is built when there is a token, and may fail to build *)
Constructed ==
    /\ cfgToken \in {"None", "stored"}
    /\ \E arg \in {"None", "given"} :
          token = IF arg # "None" THEN arg ELSE cfgToken
    /\ client \in (IF token # "None" THEN {"sdk", "None"} ELSE {"None"})
    /\ now = CACHE_DURATION
    /\ ext = ExtIdle
    /\ args = NoArgs
    /\ fetches = NoFetches
    /\ target = ""
    /\ meta = NoMeta
    /\ dest = NoFile
    /\ seen = NoRead
    /\ screen = NoScreen
    /\ explorer = NewExplorer
    /\ op = "none"
    /\ pc = "idle"
    /\ fn = ""
    /\ attempt = 0
    /\ log = <<>>
    /\ result = NoResult

(* One client and all its operations *)
Init ==
    /\ Constructed
    /\ cache \in SomeCaches
    /\ dirWritable = TRUE
    /\ remote = DefaultRemote

(* One client, its keyed lookups, and the provider holding any data *)
InitLookup ==
    /\ Constructed
    /\ cache = NoCache
    /\ dirWritable = FALSE
    /\ remote \in Remotes

(* One client, its list_domains, and the cache file in every condition *)
InitCache ==
    /\ Constructed
    /\ cache \in InitialCaches
    /\ dirWritable \in BOOLEAN
    /\ remote = DefaultRemote

----------------------------------------------------------------------------
(* The environment *)

Tick ==
    /\ now < CACHE_DURATION + TickBudget
    /\ now' = now + 1
    /\ UNCHANGED <<cfgToken, token, client, cache, dirWritable, ext, op, pc, fn,
                   attempt, log, lookup, result, dest, seen, screen, explorer>>

(* Another process in the write path of list_domains: open(CACHE_FILE, "w")
   truncates the file *)
ExtOpen ==
    /\ ext.pc = "idle"
    /\ ext.runs < MaxExtRuns
    /\ dirWritable
    /\ \E rows \in DomainLists \ {<<>>} :
          ext' = [pc |-> "writing", todo |-> to_json(DataFrame(rows)), off |-> 0,
                  runs |-> ext.runs + 1]
    /\ cache' = [exists |-> TRUE, mtime |-> now, text |-> <<>>,
                 readable |-> IF cache.exists THEN cache.readable ELSE TRUE]
    /\ UNCHANGED <<cfgToken, token, client, now, dirWritable, op, pc, fn, attempt,
                   log, lookup, result, dest, seen, screen, explorer>>

(* ... its buffered text reaches the file piece by piece *)
ExtWrite ==
    /\ ext.pc = "writing"
    /\ ext.todo # <<>>
    /\ cache' = [cache EXCEPT !.text = WriteAt(cache.text, ext.off, Head(ext.todo)),
                              !.mtime = now]
    /\ ext' = [ext EXCEPT !.todo = Tail(ext.todo), !.off = ext.off + 1]
    /\ UNCHANGED <<cfgToken, token, client, now, dirWritable, op, pc, fn, attempt,
                   log, lookup, result, dest, seen, screen, explorer>>

(* ... and the file is closed *)
ExtClose ==
    /\ ext.pc = "writing"
    /\ ext.todo = <<>>
    /\ ext' = [ExtIdle EXCEPT !.runs = ext.runs]
    /\ UNCHANGED <<cfgToken, token, client, now, cache, dirWritable, op, pc, fn,
                   attempt, log, lookup, result, dest, seen, screen, explorer>>

------------------------------------------------------------(* The stored configuration changes: the user saves another token, or the
   configuration loses its token *)
ConfigChanged ==
    /\ pc \in {"idle", "done"}
    /\ \E t \in {"None", "changed"} :
          /\ t # cfgToken
          /\ cfgToken' = t
    /\ UNCHANGED <<token, client, now, cache, dirWritable, ext, op, pc, fn,
                   attempt, log, lookup, result, dest, seen, screen, explorer>>

----------------
(* Starting a public operation *)

(* The table builder screen.  What an awaited operation of the client hands
   back to the handler of the screen that awaits it *)
(* on_mount after its await.  build_config_ui holds yield statements, so it
   is an async generator function: awaiting the object it returns raises
   TypeError before any line of its body runs, and the except clause of
   on_mount shows the error; the configuration widgets are not mounted and
   the button stays disabled *)
on_mount_continues(scr, r) ==
    [scr EXCEPT !.state = "shown",
                !.metadata = IF r.kind = "ok" THEN r.val ELSE scr.metadata,
                !.status = "Gagal memuat metadata"]

(* generate_table after its await *)
generate_table_continues(scr, r) ==
    IF r.kind = "ok"
    THEN [scr EXCEPT !.state = "shown", !.last_df = r.val, !.preview = "table"]
    ELSE [scr EXCEPT !.state = "shown", !.preview = "Error"]

Resumed(scr, r) ==
    CASE scr.state = "mounting"   -> on_mount_continues(scr, r)
      [] scr.state = "generating" -> generate_table_continues(scr, r)
      [] OTHER                    -> scr

(* The step leaves the screen alone, unless it ends the operation a handler
   of the screen awaits *)
Continue == screen' = IF pc' = "done" THEN Resumed(screen, result') ELSE screen

CanStart == pc \in {"idle", "done"}

(* No fetch_for_domain is running *)
NoGather ==
    /\ fetches' = NoFetches
    /\ target' = ""
    /\ meta' = NoMeta

Begin(o, a) ==
    /\ op' = o
    /\ args' = a
    /\ log' = <<>>
    /\ attempt' = 0

Finish(r) ==
    /\ result' = r
    /\ pc' = "done"
    /\ fn' = ""

Invoke(f) ==
    /\ pc' = "call"
    /\ fn' = f
    /\ result' = NoResult

(* list_domains up to its first await: the cache read path and the
   readiness check *)
list_domains ==
    /\ CanStart
    /\ Begin("list_domains", NoArgs)
    /\ NoGather
    /\ LET r == ReadCache(cache, now)
       IN /\ seen' = [how |-> r.how,
                      fresh |-> cache.exists /\ now - cache.mtime < CACHE_DURATION,
                      partial |-> /\ ext.pc = "writing"
                                  /\ cache.text # <<>>
                                  /\ ~IsArrayText(cache.text)]
          /\ CASE r.how = "hit"   -> Finish(Ok(r.df))
               [] r.how = "raise" -> Finish(Raise(r.exc))
               [] OTHER           -> IF ~is_ready
                                     THEN Finish(Raise(Exc("ApiTokenError")))
                                     ELSE Invoke("list_domain")
    /\ UNCHANGED <<cfgToken, token, client, now, cache, dirWritable, ext, remote, dest>>
    /\ Continue

StartListDomains == list_domains /\ UNCHANGED explorer

(* list_static_tables, view_static_table, list_dynamic_tables up to their
   first await: the readiness check of handle_api_errors *)
StartWrapped(o) ==
    /\ CanStart
    /\ Begin(o, NoArgs)
    /\ NoGather
    /\ IF ~is_ready
       THEN Finish(Raise(Exc("ApiTokenError")))
       ELSE Invoke(ProviderFn(o))
    /\ seen' = NoRead
    /\ UNCHANGED <<cfgToken, token, client, now, cache, dirWritable, ext, remote, dest>>
    /\ Continue

StartListStaticTables == StartWrapped("list_static_tables") /\ UNCHANGED explorer
StartViewStaticTable == StartWrapped("view_static_table") /\ UNCHANGED explorer
StartListDynamicTables == StartWrapped("list_dynamic_tables") /\ UNCHANGED explorer

----------------------------------------------------------------------------
(* The export pipeline: _clean_bps_dataframe and the tail of download_table *)

(* The words of ' '.join(str(x) for x in col if pd.notna(x) and str(x) != 'nan'):
   an empty level leaves an empty word, two blanks in a row *)
RECURSIVE Joined(_)
Joined(levels) ==
    IF levels = <<>> THEN <<>>
    ELSE LET x == Head(levels)
         IN IF x.k = "nan" \/ x = Str(<<"nan">>) THEN Joined(Tail(levels))
            ELSE (IF x.words = <<>> THEN <<"">> ELSE x.words) \o Joined(Tail(levels))

(* col_name.strip() *)
RECURSIVE Strip(_)
Strip(words) ==
    IF words = <<>> THEN <<>>
    ELSE IF Head(words) = "" THEN Strip(Tail(words))
    ELSE IF words[Len(words)] = "" THEN Strip(SubSeq(words, 1, Len(words) - 1))
    ELSE words

Flattened(columns) ==
    [i \in 1..Len(columns) |-> Str(Strip(Joined(columns[i].levels)))]

(* f"Unnamed_{i}" if col == "" or pd.isna(col) else str(col) *)
Renamed(columns) ==
    [i \in 1..Len(columns) |->
        IF columns[i] = Str(<<>>) \/ columns[i] = NaN THEN Unnamed(i - 1)
        ELSE IF columns[i].k = "num" THEN Str(columns[i].words)
        ELSE columns[i]]

AllNaN(row) == \A j \in 1..Len(row) : row[j] = "NaN"

(* df.dropna(how='all'): positions of the rows kept *)
RECURSIVE KeptRows(_, _)
KeptRowsAfterHeader(rows, i) ==
    IF i > Len(rows) THEN <<>>
    ELSE (IF AllNaN(rows[i]) \/ i = 1 THEN <<>> ELSE <<i>>) \o KeptRows(rows, i + 1)

KeptRows(rows, i) ==
    IF i > Len(rows) THEN <<>>
    ELSE (IF AllNaN(rows[i]) THEN <<>> ELSE <<i>>) \o KeptRows(rows, i + 1)

_clean_bps_dataframe(df) ==
    LET flat == IF df.multi THEN Flattened(df.columns) ELSE df.columns
        kept == KeptRows(df.rows, 1)
    IN Table(FALSE, Renamed(flat),
             [i \in 1..Len(kept) |-> i - 1],             \* reset_index(drop=True)
             [i \in 1..Len(kept) |-> df.rows[kept[i]]])

Formats == {"csv", "xlsx", "json"}

(* What to_csv / to_excel / to_json put at the path: index=False, or records *)
Exported(format, df) == [format |-> format, columns |-> df.columns, rows |-> df.rows]

DownloadContinuesOverwrites(r) ==
    IF r.kind = "exc" THEN Finish(r) /\ dest' = dest
    ELSE IF r.val.rows = <<>>
    THEN Finish(Raise(Exc("Exception"))) /\ dest' = dest
    ELSE LET df_clean == _clean_bps_dataframe(r.val)
         IN IF args.format \in Formats
            THEN /\ dest' = [exists |-> TRUE, bytes |-> Exported(args.format, df_clean)]
                 /\ Finish(Ok(PyStr("filepath")))
            ELSE Finish(Raise(Exc("ValueError"))) /\ dest' = dest

(* download_table after view_static_table *)
DownloadContinues(r) ==
    IF r.kind = "exc" THEN Finish(r) /\ dest' = dest
    ELSE IF r.val.rows = <<>>
    THEN Finish(Raise(Exc("Exception"))) /\ dest' = dest
    ELSE LET df_clean == _clean_bps_dataframe(r.val)
         IN IF dest.exists /\ ~args.overwrite
            THEN Finish(Raise(Exc("FileExistsError"))) /\ dest' = dest
            ELSE IF args.format \in Formats
            THEN /\ dest' = [exists |-> TRUE, bytes |-> Exported(args.format, df_clean)]
                 /\ Finish(Ok(PyStr("filepath")))
            ELSE Finish(Raise(Exc("ValueError"))) /\ dest' = dest

(* download_table up to its first await: its own readiness check, then
   view_static_table *)
StartDownload ==
    /\ CanStart
    /\ \E format \in Formats \cup {"xml"}, overwrite \in BOOLEAN :
          Begin("download_table", ExportArgs(format, overwrite))
    /\ NoGather
    /\ IF ~is_ready
       THEN Finish(Raise(Exc("ApiTokenError")))
       ELSE Invoke("view_statictable")
    /\ seen' = NoRead
    /\ UNCHANGED <<cfgToken, token, client, now, cache, dirWritable, ext, remote, dest>>
    /\ Continue
    /\ UNCHANGED explorer

----------------------------------------------------------------------------
(* What an operation does with the value the invoker returned: the rest of
   its body, up to its return or raise *)

view_static_table_checks(v) ==
    IF v.type # "DataFrame" THEN Raise(Exc("BpsApiDataError"))
    ELSE IF v.rows = <<>> THEN Raise(Exc("BpsApiDataError"))
    ELSE Ok(v)

(* The body of a wrapped operation raised e: the except clauses of
   handle_api_errors decide what the caller sees *)
Wrapped(r) == IF r.kind = "exc" THEN Raise(handle_api_errors(r.exc)) ELSE r

(* A write path that does not look at df.empty *)
ListDomainsReturnsWritesAny(df) ==
    IF dirWritable
    THEN /\ cache' = WrittenCache(df, now)
         /\ Finish(Ok(df))
    ELSE /\ cache' = cache
         /\ Finish(Raise(list_domains_except(Exc("OSError"))))

(* list_domains after the provider call: the write path and the return *)
ListDomainsReturns(df) ==
    IF df.rows # <<>>
    THEN IF dirWritable
         THEN /\ cache' = WrittenCache(df, now)
              /\ Finish(Ok(df))
         ELSE /\ cache' = cache
              /\ Finish(Raise(list_domains_except(Exc("OSError"))))
    ELSE /\ cache' = cache
         /\ Finish(Ok(df))

Returns(v) ==
    CASE op = "list_domains"      -> /\ ListDomainsReturns(v)
                                     /\ dest' = dest
      [] op = "view_static_table" -> /\ Finish(Wrapped(view_static_table_checks(v)))
                                     /\ UNCHANGED <<cache, dest>>
      [] op = "download_table"    -> /\ DownloadContinues(Wrapped(view_static_table_checks(v)))
                                     /\ cache' = cache
      [] OTHER                    -> /\ Finish(Wrapped(Ok(v)))
                                     /\ UNCHANGED <<cache, dest>>

Raises(e) ==
    /\ cache' = cache
    /\ IF op = "list_domains"
       THEN Finish(Raise(list_domains_except(e)))
       ELSE Finish(Wrapped(Raise(e)))

----------------------------------------------------------------------------
(* _api_call_with_retry: one pass of the loop body per provider call *)

(* await asyncio.to_thread(api_function, ...) returns: return result *)
CallReturns ==
    /\ pc = "call"
    /\ op \in RetriedOps
    /\ \E v \in ProviderValues(fn) :
          /\ log' = Append(log, CallEv(fn, NoExc, token, ""))
          /\ Returns(v)
    /\ UNCHANGED <<cfgToken, token, client, now, dirWritable, ext, op, attempt, lookup, seen>>
    /\ Continue
    /\ UNCHANGED explorer

(* ... raises, HTTP 429 with retries left: sleep *)
CallRetried ==
    /\ pc = "call"
    /\ op \in RetriedOps
    /\ \E e \in ProviderErrors :
          /\ ShouldRetry(e, attempt)
          /\ log' = log \o <<CallEv(fn, e, token, ""), SleepEv(Delay(attempt))>>
    /\ pc' = "sleep"
    /\ UNCHANGED <<cfgToken, token, client, now, cache, dirWritable, ext, op, fn,
                   attempt, lookup, result, dest, seen, screen, explorer>>

(* ... raises anything else: raise *)
CallRaises ==
    /\ pc = "call"
    /\ op \in RetriedOps
    /\ \E e \in ProviderErrors :
          /\ ~ShouldRetry(e, attempt)
          /\ log' = Append(log, CallEv(fn, e, token, ""))
          /\ Raises(e)
    /\ UNCHANGED <<cfgToken, token, client, now, dirWritable, ext, op, attempt, lookup, dest, seen>>
    /\ Continue
    /\ UNCHANGED explorer

(* asyncio.sleep(delay) is over: continue with the next attempt, or leave the
   loop when range(max_retries) is used up *)
BackoffElapsed ==
    /\ pc = "sleep"
    /\ attempt' = attempt + 1
    /\ IF attempt + 1 < max_retries
       THEN /\ pc' = "call"
            /\ UNCHANGED <<cache, fn, result>>
       ELSE Raises(Exc("BpsServerError"))
    /\ UNCHANGED <<cfgToken, token, client, now, dirWritable, ext, op, log, lookup, dest, seen>>
    /\ Continue
    /\ UNCHANGED explorer

----------------------------------------------------------------------------
(* get_dynamic_table_metadata *)

(* What fetch_for_domain returns once its four lookups have returned *)
fetch_for_domain(d) ==
    LET vertical_vars   == extract_list(remote[d]["vervar"], Mapping("vervar"))
        horizontal_vars == extract_list(remote[d]["turvar"], Mapping("turvar"))
        years           == extract_list(remote[d]["th"], Mapping("th"))
        derived_years   == extract_list(remote[d]["turth"], Mapping("turth"))
    IN [exc |-> IF vertical_vars.exc # NoExc THEN vertical_vars.exc
                ELSE IF horizontal_vars.exc # NoExc THEN horizontal_vars.exc
                ELSE IF years.exc # NoExc THEN years.exc
                ELSE derived_years.exc,
        md  |-> [vertical_vars   |-> CleanLabels(vertical_vars.items),
                 horizontal_vars |-> CleanLabels(horizontal_vars.items),
                 years           |-> CleanLabels(years.items),
                 derived_years   |-> CleanLabels(derived_years.items),
                 source_domain   |-> d]]

Incomplete(md) ==
    md.vertical_vars = <<>> \/ md.horizontal_vars = <<>> \/ md.years = <<>>

AllInFlight == [m \in ModelSet |-> "flight"]

(* The four requests of one gather, in the order gather was given them *)
Requests(d, key) == [i \in 1..Len(Models) |-> RequestEv(Models[i], key, d)]

(* Up to the first await: the readiness check of handle_api_errors, the
   token of the configuration, and the four lookups handed to gather.  The
   log takes a request when it is sent. *)
get_dynamic_table_metadata(d) ==
    /\ op' = "get_dynamic_table_metadata"
    /\ args' = [domain_id |-> d, source_domain |-> "None",
                key |-> IF is_ready THEN cfgToken ELSE "None"]
    /\ attempt' = 0
    /\ IF ~is_ready
       THEN Finish(Raise(Exc("ApiTokenError"))) /\ NoGather /\ log' = <<>>
       ELSE IF cfgToken = "None"
       THEN /\ Finish(Wrapped(Raise(Exc("ApiTokenError"))))
            /\ NoGather
            /\ log' = <<>>
       ELSE /\ log' = Requests(d, cfgToken)
            /\ pc' = "gather"
            /\ fn' = ""
            /\ result' = NoResult
            /\ fetches' = AllInFlight
            /\ target' = d
            /\ meta' = NoMeta
    /\ seen' = NoRead
    /\ UNCHANGED <<cfgToken, token, client, now, cache, dirWritable, ext, remote, dest>>

StartMetadata ==
    /\ CanStart
    /\ \E d \in Domains : get_dynamic_table_metadata(d)
    /\ Continue
    /\ UNCHANGED explorer

(* A fallback that is tried for domain "0000" as well *)
AfterRequestedAnyDomain(md) ==
    IF Incomplete(md)
    THEN /\ fetches' = AllInFlight
         /\ log' = log \o Requests("0000", args.key)
         /\ target' = "0000"
         /\ meta' = md
         /\ UNCHANGED <<pc, fn, result>>
    ELSE /\ fetches' = [m \in ModelSet |-> "done"]
         /\ UNCHANGED <<log, target, meta>>
         /\ Finish(Wrapped(Ok(md)))

(* The code after the first fetch_for_domain: the fallback decision *)
AfterRequested(md) ==
    IF Incomplete(md) /\ args.domain_id # "0000"
    THEN /\ fetches' = AllInFlight
         /\ log' = log \o Requests("0000", args.key)
         /\ target' = "0000"
         /\ meta' = md
         /\ UNCHANGED <<pc, fn, result>>
    ELSE /\ fetches' = [m \in ModelSet |-> "done"]
         /\ UNCHANGED <<log, target, meta>>
         /\ IF Incomplete(md)
            THEN Finish(Wrapped(Raise(Exc("BpsApiDataError"))))
            ELSE Finish(Wrapped(Ok(md)))

(* A fallback whose result is never taken *)
AfterFallbackDiscarded(fallback_metadata) ==
    /\ fetches' = [m \in ModelSet |-> "done"]
    /\ UNCHANGED <<log, target, meta>>
    /\ IF Incomplete(meta)
       THEN Finish(Wrapped(Raise(Exc("BpsApiDataError"))))
       ELSE Finish(Wrapped(Ok(meta)))

(* A fallback that fills only the lists the requested domain lacks *)
AfterFallbackFillsGaps(fallback_metadata) ==
    LET Fill(k) == IF meta[k] = <<>> THEN fallback_metadata[k] ELSE meta[k]
        md == IF ~Incomplete(fallback_metadata)
              THEN [vertical_vars   |-> Fill("vertical_vars"),
                    horizontal_vars |-> Fill("horizontal_vars"),
                    years           |-> Fill("years"),
                    derived_years   |-> Fill("derived_years"),
                    source_domain   |-> "0000"]
              ELSE meta
    IN /\ fetches' = [m \in ModelSet |-> "done"]
       /\ UNCHANGED <<log, target, meta>>
       /\ IF Incomplete(md)
          THEN Finish(Wrapped(Raise(Exc("BpsApiDataError"))))
          ELSE Finish(Wrapped(Ok(md)))

(* The code after the fallback fetch_for_domain *)
AfterFallback(fallback_metadata) ==
    LET md == IF ~Incomplete(fallback_metadata)
              THEN [fallback_metadata EXCEPT !.source_domain = "0000"]
              ELSE meta
    IN /\ fetches' = [m \in ModelSet |-> "done"]
       /\ UNCHANGED <<log, target, meta>>
       /\ IF Incomplete(md)
          THEN Finish(Wrapped(Raise(Exc("BpsApiDataError"))))
          ELSE Finish(Wrapped(Ok(md)))

(* One lookup of the gather returns its JSON; with the last one the gather
   returns and the operation goes on *)
LookupReturns ==
    /\ pc = "gather"
    /\ \E m \in ModelSet :
          /\ fetches[m] = "flight"
          /\ IF \E other \in ModelSet \ {m} : fetches[other] = "flight"
             THEN /\ fetches' = [fetches EXCEPT ![m] = "done"]
                  /\ UNCHANGED <<pc, fn, log, result, target, meta>>
             ELSE LET f == fetch_for_domain(target)
                  IN IF f.exc # NoExc
                     THEN /\ fetches' = [x \in ModelSet |-> "done"]
                          /\ Finish(Wrapped(Raise(f.exc)))
                          /\ UNCHANGED <<log, target, meta>>
                     ELSE IF meta = NoMeta
                     THEN AfterRequested(f.md)
                     ELSE AfterFallback(f.md)
    /\ UNCHANGED <<cfgToken, token, client, now, cache, dirWritable, ext, op,
                   attempt, args, remote, dest, seen>>
    /\ Continue
    /\ UNCHANGED explorer

(* One lookup raises (requests.get, or raise_for_status): gather raises at
   once, and the lookups still in flight stay so, their results awaited by
   nobody *)
LookupRaises ==
    /\ pc = "gather"
    /\ \E m \in ModelSet, e \in ProviderErrors :
          /\ fetches[m] = "flight"
          /\ fetches' = [fetches EXCEPT ![m] = "failed"]
          /\ log' = Append(log, FailEv(m, e, target))
          /\ Finish(Wrapped(Raise(e)))
    /\ UNCHANGED <<cfgToken, token, client, now, cache, dirWritable, ext, op,
                   attempt, args, remote, target, meta, dest, seen>>
    /\ Continue
    /\ UNCHANGED explorer

----------------------------------------------------------------------------
(* get_dynamic_table_data *)

Min(a, b) == IF a < b THEN a ELSE b

(* key[a:b] *)
Slice(key, a, b) == SubSeq(key, a + 1, Min(b, Len(key)))

(* A year read as four digits *)
_decode_datacontent_keyShifted(key) ==
    [domain         |-> Slice(key, 0, 4),
     year           |-> Slice(key, 4, 8),
     vertical_group |-> Slice(key, 8, 10),
     vertical_item  |-> Slice(key, 10, 15),
     horizontal     |-> Slice(key, 15, 18),
     derived        |-> Slice(key, 18, 21)]

_decode_datacontent_key(key) ==
    [domain         |-> Slice(key, 0, 4),
     year           |-> Slice(key, 4, 6),
     vertical_group |-> Slice(key, 6, 8),
     vertical_item  |-> Slice(key, 8, 13),
     horizontal     |-> Slice(key, 13, 16),
     derived        |-> Slice(key, 16, 19)]

RECURSIVE Records(_, _)
Records(keys, d) ==
    IF keys = <<>> THEN <<>>
    ELSE LET key == Head(keys)
             decoded == _decode_datacontent_key(key)
         IN <<[domain         |-> decoded.domain,
               year           |-> decoded.year,
               vertical_group |-> decoded.vertical_group,
               vertical_item  |-> decoded.vertical_item,
               horizontal     |-> decoded.horizontal,
               derived        |-> decoded.derived,
               value          |-> d[key],
               raw_key        |-> key]>> \o Records(Tail(keys), d)

(* A body without the test of df.empty *)
DataFromResponseAllowsEmpty(res) ==
    IF PyGet(res, "data-availability", PyNone) # PyStr("available")
    THEN Raise(Exc("BpsApiDataError"))
    ELSE LET datacontent == PyGet(res, "datacontent", PyNone)
         IN IF datacontent.py # "dict" THEN Raise(Exc("BpsApiDataError"))
            ELSE Ok(DataFrame(Records(datacontent.keys, datacontent.d)))

(* The body after response.json() *)
DataFromResponse(res) ==
    IF PyGet(res, "data-availability", PyNone) # PyStr("available")
    THEN Raise(Exc("BpsApiDataError"))
    ELSE LET datacontent == PyGet(res, "datacontent", PyNone)
         IN IF datacontent.py # "dict" THEN Raise(Exc("BpsApiDataError"))
            ELSE LET records == Records(datacontent.keys, datacontent.d)
                 IN IF records = <<>> THEN Raise(Exc("BpsApiDataError"))
                    ELSE Ok(DataFrame(records))

get_dynamic_table_data(d, sd) ==
    /\ op' = "get_dynamic_table_data"
    /\ args' = [domain_id |-> d, source_domain |-> sd,
                key |-> IF is_ready THEN cfgToken ELSE "None"]
    /\ attempt' = 0
    /\ NoGather
    /\ IF ~is_ready
       THEN Finish(Raise(Exc("ApiTokenError"))) /\ log' = <<>>
       ELSE IF cfgToken = "None"
       THEN Finish(Wrapped(Raise(Exc("ApiTokenError")))) /\ log' = <<>>
       ELSE LET effective_domain == IF sd # "None" THEN sd ELSE d
            IN /\ log' = <<RequestEv("data", cfgToken, effective_domain)>>
               /\ pc' = "lookup"
               /\ fn' = effective_domain
               /\ result' = NoResult
    /\ seen' = NoRead
    /\ UNCHANGED <<cfgToken, token, client, now, cache, dirWritable, ext, remote, dest>>

StartData ==
    /\ CanStart
    /\ \E d \in Domains, sd \in Domains \cup {"None"} : get_dynamic_table_data(d, sd)
    /\ Continue
    /\ UNCHANGED explorer

DataReturns ==
    /\ pc = "lookup"
    /\ Finish(Wrapped(DataFromResponse(remote[fn]["data"])))
    /\ UNCHANGED <<cfgToken, token, client, now, cache, dirWritable, ext, op,
                   attempt, log, lookup, dest, seen>>
    /\ Continue
    /\ UNCHANGED explorer

DataRaises ==
    /\ pc = "lookup"
    /\ \E e \in ProviderErrors :
          /\ log' = Append(log, FailEv("data", e, fn))
          /\ Finish(Wrapped(Raise(e)))
    /\ UNCHANGED <<cfgToken, token, client, now, cache, dirWritable, ext, op,
                   attempt, lookup, dest, seen>>
    /\ Continue
    /\ UNCHANGED explorer

----------------------------------------------------------------------------
(* DynamicTableBuilderScreen *)

(* source_domain=self.metadata.get("source_domain", self.metadata_source) *)
SourceDomainOf(scr) ==
    IF scr.metadata = NoMeta THEN scr.metadata_source ELSE scr.metadata.source_domain

(* The screen is constructed and mounted: __init__, compose, and on_mount up
   to its await *)
OpenBuilder ==
    /\ CanStart
    /\ screen.state = "none"
    /\ \E domain_id \in Domains, metadata_source \in Domains \cup {"None"} :
          LET scr == [NoScreen EXCEPT
                         !.state = "mounting",
                         !.domain_id = domain_id,
                         !.metadata_source = IF metadata_source # "None"
                                             THEN metadata_source ELSE domain_id,
                         !.status = "Memuat opsi konfigurasi..."]
          IN /\ get_dynamic_table_metadata(scr.metadata_source)
             /\ screen' = IF pc' = "done" THEN Resumed(scr, result') ELSE scr
    /\ UNCHANGED explorer

(* The handler of Button.Pressed on #generate-table-button, for a press
   message posted to the screen (the button itself stays disabled while
   build_config_ui has not run).  query_one("#vervar-radioset") raises
   NoMatches while the configuration widgets are not mounted, and an
   incomplete choice raises ValueError: the except clause shows the error
   and no request is made *)
generate_table ==
    /\ CanStart
    /\ screen.state = "shown"
    /\ \E complete \in BOOLEAN :
          IF ~screen.built \/ ~complete
          THEN /\ screen' = [screen EXCEPT !.last_df = NoValue, !.preview = "Error"]
               /\ UNCHANGED <<cfgToken, token, client, now, cache, dirWritable, ext,
                              op, pc, fn, attempt, log, lookup, result, dest, seen>>
          ELSE LET scr == [screen EXCEPT !.state = "generating",
                                         !.last_df = NoValue,
                                         !.requested = SourceDomainOf(screen)]
               IN /\ get_dynamic_table_data(screen.domain_id, SourceDomainOf(screen))
                  /\ screen' = IF pc' = "done" THEN Resumed(scr, result') ELSE scr
    /\ UNCHANGED explorer

(* perform_dynamic_download(df, filename, file_format): the worker that
   writes a table the screen holds.  The file is written by to_csv, to_excel
   or to_json, which may fail; a file_format outside the three branches
   falls through the if/elif chain to the notification of success *)
perform_dynamic_download ==
    /\ CanStart
    /\ screen.state = "shown"
    /\ \E df \in {FlatTable, HeaderTable}, file_format \in Formats \cup {"xml"},
          written \in BOOLEAN :
          LET df_clean == _clean_bps_dataframe(df)
          IN IF file_format \in Formats /\ ~written
             THEN /\ dest' = dest
                  /\ screen' = [screen EXCEPT !.file_format = file_format,
                                              !.notice = "Download Error"]
             ELSE /\ dest' = IF file_format \in Formats
                             THEN [exists |-> TRUE,
                                   bytes |-> Exported(file_format, df_clean)]
                             ELSE dest
                  /\ screen' = [screen EXCEPT !.file_format = file_format,
                                              !.notice = "Download Berhasil"]
    /\ UNCHANGED <<cfgToken, token, client, now, cache, dirWritable, ext,
                   op, pc, fn, attempt, log, lookup, result, seen>>
    /\ UNCHANGED explorer

----------------------------------------------------------------------------
(* DataExplorer.  A handler is a coroutine: it runs to its next await, and
   the handlers of other messages run while it waits.  The table holds one
   list: "domain", "static", "dynamic", the one row that says no table was
   found ("placeholder"), or nothing ("none"). *)

(* Everything but the widget *)
outside ==
    <<cfgToken, token, client, now, cache, dirWritable, ext, op, pc, fn, attempt,
      log, lookup, result, dest, seen, screen>>

(* async with self._selection_lock *)
Unlocked(e) == e

Locked(e) == [e EXCEPT !.locked = TRUE]

(* The statements of a load before its try block: is_loading, the spinner,
   table.clear.  posted is the message posted for a row of the list the
   table holds, so it goes with the list *)
Loading(e, kind, by) ==
    [e EXCEPT !.is_loading = TRUE,
              !.table_disabled = TRUE,
              !.shown = "none",
              !.posted = "",
              !.posted_for = "",
              !.load = [kind |-> kind, by |-> by],
              !.running = @ + 1]

(* display_domains up to its await; called while a load is running it
   returns at once *)
display_domains ==
    /\ ~explorer.is_loading
    /\ list_domains
    /\ explorer' = [Loading(explorer, "domain", "display") EXCEPT
                       !.selector_disabled = TRUE]

(* _load_table_list up to its await, called by a handler that leaves the
   widget as e *)
_load_table_list(e, by) ==
    IF e.is_loading
    THEN /\ explorer' = [e EXCEPT !.locked = IF by = "selection" THEN FALSE ELSE @]
         /\ UNCHANGED outside
    ELSE /\ IF e.table_type = "static"
            THEN StartWrapped("list_static_tables")
            ELSE StartWrapped("list_dynamic_tables")
         /\ explorer' = Loading(e, e.table_type, by)

(* The data table posts RowSelected for a row it shows *)
RowSelected ==
    /\ ~explorer.table_disabled
    /\ explorer.shown # "none"
    /\ explorer.pending < MaxPending
    /\ explorer' = [explorer EXCEPT !.pending = @ + 1]
    /\ UNCHANGED outside

(* handle_row_selection for a posted RowSelected, up to its await or its
   end.  get_row_at raises for a table that holds no row. *)
handle_row_selection ==
    /\ explorer.pending > 0
    /\ LET e == [explorer EXCEPT !.pending = @ - 1]
           Returns_(how) == explorer' = [e EXCEPT !.handled = how] /\ UNCHANGED outside
       IN IF e.locked THEN Returns_("locked")
          ELSE IF e.is_loading THEN Returns_("loading")
          ELSE IF e.shown = "none" THEN Returns_("no row")
          ELSE IF e.shown = "placeholder" THEN Returns_("no id")
          ELSE IF e.current_view = "domain"
          THEN _load_table_list(
                   Locked([e EXCEPT !.selected_domain = <<DomainRow(1).domain_id,
                                                           DomainRow(1).domain_name>>,
                                    !.selector_disabled = FALSE,
                                    !.handled = "load"]),
                   "selection")
          ELSE /\ explorer' =
                     [e EXCEPT !.handled = "posted",
                               !.posted = IF e.table_type = "static"
                                          THEN "TableSelected"
                                          ELSE "DynamicTableSelected",
                               !.posted_for = e.shown]
               /\ UNCHANGED outside

(* on_table_type_changed for a RadioSet.Changed of the selector that reaches
   the widget (compose leaves the button "dynamic" disabled; the selector
   itself is enabled by handle_row_selection) *)
on_table_type_changed ==
    /\ ~explorer.selector_disabled
    /\ \E pressed \in {"static", "dynamic"} \ {explorer.pressed} :
          LET e == [explorer EXCEPT !.pressed = pressed, !.table_type = pressed]
          IN IF e.selected_domain # <<>>
             THEN _load_table_list(e, "type")
             ELSE explorer' = e /\ UNCHANGED outside

(* A finally clause that leaves is_loading as it is *)
finally_clauseStillLoading(e) ==
    [e EXCEPT !.table_disabled = FALSE,
              !.load = NoLoad,
              !.running = @ - 1,
              !.locked = IF e.load.by = "selection" THEN FALSE ELSE @]

(* The finally clause of a load, and the end of the async with block of
   the handler that awaited it *)
finally_clause(e) ==
    [e EXCEPT !.is_loading = FALSE,
              !.table_disabled = FALSE,
              !.load = NoLoad,
              !.running = @ - 1,
              !.locked = IF e.load.by = "selection" THEN FALSE ELSE @]

(* A load after its await: _fetch_with_min_delay returned or raised what
   the client did; the rest of the try block or the except clause, the
   finally clause, and the end of the handler that awaited the load *)
load_resumes ==
    /\ explorer.load.kind # "none"
    /\ pc = "done"
    /\ LET kind == explorer.load.kind
           ok == result.kind = "ok"
           e == finally_clause(explorer)
       IN explorer' =
             CASE kind = "domain" /\ ok ->
                     [e EXCEPT !.shown = IF result.val.rows # <<>> THEN "domain" ELSE "none",
                               !.current_view = "domain",
                               !.selected_domain = <<>>,
                               !.table_type = "static"]
               [] kind = "domain" /\ ~ok ->
                     [e EXCEPT !.current_view = "domain", !.selected_domain = <<>>]
               [] kind # "domain" /\ ok ->
                     [e EXCEPT !.shown = IF result.val.rows # <<>> THEN kind
                                         ELSE "placeholder",
                               !.current_view = "table"]
               [] OTHER -> e
    /\ UNCHANGED outside

----------------------------------------------------------------------------

Next ==
    \/ StartListDomains
    \/ StartListStaticTables
    \/ StartViewStaticTable
    \/ StartListDynamicTables
    \/ CallReturns
    \/ CallRetried
    \/ CallRaises
    \/ BackoffElapsed
    \/ StartMetadata
    \/ LookupReturns
    \/ LookupRaises
    \/ StartData
    \/ DataReturns
    \/ DataRaises
    \/ StartDownload

Spec == Init /\ [][Next]_vars

(* The keyed lookups, against every holding of the provider *)
NextLookup ==
    \/ StartMetadata
    \/ LookupReturns
    \/ LookupRaises
    \/ StartData
    \/ DataReturns
    \/ DataRaises

SpecLookup == InitLookup /\ [][NextLookup]_vars

(* list_domains beside another process that rewrites the cache file *)
NextCache ==
    \/ Tick
    \/ ExtOpen
    \/ ExtWrite
    \/ ExtClose
    \/ StartListDomains
    \/ CallReturns
    \/ CallRetried
    \/ CallRaises
    \/ BackoffElapsed

SpecCache == InitCache /\ [][NextCache]_vars

(* One client while the stored configuration changes under it *)
InitCredential ==
    /\ Constructed
    /\ cache = NoCache
    /\ dirWritable = TRUE
    /\ remote = DefaultRemote

NextCredential ==
    \/ ConfigChanged
    \/ StartListStaticTables
    \/ CallReturns
    \/ CallRetried
    \/ CallRaises
    \/ BackoffElapsed
    \/ StartMetadata
    \/ LookupReturns
    \/ LookupRaises
    \/ StartData
    \/ DataReturns
    \/ DataRaises

SpecCredential == InitCredential /\ [][NextCredential]_vars

(* The two operations that return a table, against every holding *)
NextResults ==
    \/ StartData
    \/ DataReturns
    \/ DataRaises
    \/ StartViewStaticTable
    \/ CallReturns
    \/ CallRetried
    \/ CallRaises
    \/ BackoffElapsed

SpecResults == InitLookup /\ [][NextResults]_vars

(* _clean_bps_dataframe on its own: on a flat table of any shape, then on
   what it returned *)
FlatLabels ==
    {Str(<<"Provinsi">>), Str(<<>>), NaN, NumLabel(<<"2020">>), Unnamed(1)}

FlatRows ==
    {<<"ACEH", "15", "9">>, <<"NaN", "NaN", "NaN">>, <<"NaN", "7", "NaN">>}

FlatTables ==
    UNION { { Table(FALSE, columns, index, [i \in 1..r |-> SubSeq(rows[i], 1, c)]) :
                columns \in [1..c -> FlatLabels],
                rows \in [1..r -> FlatRows],
                index \in {[i \in 1..r |-> i - 1], [i \in 1..r |-> 2 * i + 1]} } :
            c \in 1..MaxCols, r \in 1..MaxRows }

Normalize ==
    /\ CanStart
    /\ \E df \in (IF op = "_clean_bps_dataframe" THEN {result.val} ELSE FlatTables) :
          /\ Begin("_clean_bps_dataframe", [df |-> df])
          /\ Finish(Ok(_clean_bps_dataframe(df)))
    /\ NoGather
    /\ seen' = NoRead
    /\ UNCHANGED <<cfgToken, token, client, now, cache, dirWritable, ext, remote, dest>>
    /\ Continue
    /\ UNCHANGED explorer

InitNormalize == InitCredential /\ client = "sdk"

SpecNormalize == InitNormalize /\ [][Normalize]_vars

(* The DataExplorer over the client *)
NextExplorer ==
    \/ display_domains
    \/ RowSelected
    \/ handle_row_selection
    \/ on_table_type_changed
    \/ load_resumes
    \/ CallReturns
    \/ CallRetried
    \/ CallRaises
    \/ BackoffElapsed

(* One DataExplorer over a ready client built from its stored token *)
InitExplorer == InitCredential /\ client = "sdk" /\ token = cfgToken

SpecExplorer == InitExplorer /\ [][NextExplorer]_vars

(* The same, with a provider call that returns or raises, a sleep that
   elapses, and an event loop that resumes the coroutine whose await is
   over *)
ClientProgress == CallReturns \/ CallRetried \/ CallRaises \/ BackoffElapsed

SpecExplorerLive ==
    /\ SpecExplorer
    /\ WF_vars(ClientProgress)
    /\ WF_vars(load_resumes)

(* The two export paths: download_table of the client and the download
   worker of the table builder screen, with a provider that does not limit
   the rate and answers the lookups *)
NextExport ==
    \/ StartDownload
    \/ CallReturns
    \/ CallRaises
    \/ OpenBuilder
    \/ LookupReturns
    \/ perform_dynamic_download

SpecExport == InitCredential /\ [][NextExport]_vars

(* The table builder screen over the client, against every holding *)
NextBuilder ==
    \/ OpenBuilder
    \/ generate_table
    \/ LookupReturns
    \/ LookupRaises
    \/ StartData
    \/ DataReturns
    \/ DataRaises

SpecBuilder == InitLookup /\ [][NextBuilder]_vars

----------------------------------------------------------------------------
(* Properties of the retrying invoker *)

IsCall(e) == e.ev = "call"
Attempts == SelectSeq(log, IsCall)
RateLimited == HTTPError(429)
Retrying == op \in RetriedOps

(* C1: when the provider answers HTTP 429 on all three attempts of one
   invoke, the invoke fails with the server-unavailable error
   (BpsServerError) and there is no fourth attempt. *)
C1_ExhaustedRetriesRaiseServerError ==
    ( /\ Retrying
      /\ pc = "done"
      /\ Len(Attempts) >= max_retries
      /\ \A i \in 1..max_retries : Attempts[i].out = RateLimited )
    => /\ Len(Attempts) = max_retries
       /\ result = Raise(Exc("BpsServerError"))

(* C2: when the provider answers HTTP 429 on the first two attempts and
   succeeds on the third, the invoker waits 1 second after the first
   failure and 2 seconds after the second, in that order, and the value of
   the third attempt is what the invoke returns. *)
C2_BackoffThenSuccess ==
    ( /\ Retrying
      /\ pc = "done"
      /\ Len(Attempts) = 3
      /\ Attempts[1].out = RateLimited
      /\ Attempts[2].out = RateLimited
      /\ Attempts[3].out = NoExc )
    => /\ log = << Attempts[1], SleepEv(1), Attempts[2], SleepEv(2), Attempts[3] >>
       /\ op \in {"list_static_tables", "list_dynamic_tables"}
             => /\ result.kind = "ok"
                /\ result.val \in ProviderValues(ProviderFn(op))
       /\ result.kind = "exc"
             => result.exc.cls \notin {"HTTPError", "BpsServerError"}

C2_Witness ==
    /\ op = "list_static_tables"
    /\ pc = "done"
    /\ Len(log) = 5
    /\ log[1].out = RateLimited
    /\ log[2] = SleepEv(1)
    /\ log[3].out = RateLimited
    /\ log[4] = SleepEv(2)
    /\ log[5].out = NoExc
    /\ result.kind = "ok"

(* C3: the invoker makes at most three attempts; it makes attempt k+1 only
   when attempt k ended in HTTP 429 and k < 3; any other failure, and a
   success, ends the invoke at that attempt, with no delay after it. *)
C3_RetryOnlyOnRateLimit ==
    Retrying =>
       /\ Len(Attempts) <= max_retries
       /\ \A i \in 1..Len(log) :
             /\ (IsCall(log[i]) /\ i < Len(log))
                   => /\ log[i].out = RateLimited
                      /\ Len(SelectSeq(SubSeq(log, 1, i), IsCall)) < max_retries
                      /\ log[i + 1].ev = "sleep"
             /\ log[i].ev = "sleep"
                   => /\ i > 1
                      /\ log[i - 1].out = RateLimited
             /\ (IsCall(log[i]) /\ log[i].out # RateLimited)
                   => /\ i = Len(log)
                      /\ pc = "done"

C3_Witness ==
    /\ Retrying
    /\ pc = "done"
    /\ Len(log) = 3
    /\ log[1].out = RateLimited
    /\ log[3].out = HTTPError(500)

----------------------------------------------------------------------------
(* Properties of the keyed lookups *)

LookupOps == {"get_dynamic_table_metadata", "get_dynamic_table_data"}

(* How many times the lookup of model f was sent to domain d *)
Sent(f, d) ==
    Cardinality({i \in 1..Len(log) :
                    log[i].ev = "request" /\ log[i].fn = f /\ log[i].domain = d})

(* C4: every provider call goes through the bounded rate-limit retry, the
   four metadata lookups and the data lookup included: an operation that
   ends in HTTP 429 has sent some lookup three times; one 429 alone does
   not end it. *)
C4_LookupsAreRetried ==
    ( /\ op \in LookupOps
      /\ pc = "done"
      /\ result = Raise(RateLimited) )
    => \E i \in 1..Len(log) : Sent(log[i].fn, log[i].domain) = max_retries

----------------------------------------------------------------------------
(* Properties of the domain cache *)

CacheFresh == cache.exists /\ now - cache.mtime < CACHE_DURATION

Deserialized == pd_DataFrame(json_load(cache.text).data)

Deserializes ==
    /\ cache.readable
    /\ json_load(cache.text).exc = NoExc
    /\ Deserialized.exc = NoExc

IsDomainList(df) == df.rows \in DomainLists \cup {OldRows}

(* C5: with a cache file younger than 7 days whose content deserializes,
   list_domains returns the cached value and makes no provider call,
   whether or not the client holds a credential. *)
C5_FreshCacheIsServed ==
    [][ (StartListDomains /\ CacheFresh /\ Deserializes)
        => /\ pc' = "done"
           /\ log' = <<>>
           /\ result' = Ok(Deserialized.df)
           /\ IsDomainList(Deserialized.df) => to_json(result'.val) = cache.text
      ]_vars

C5_Witness ==
    /\ op = "list_domains"
    /\ pc = "done"
    /\ client = "None"
    /\ seen.how = "hit"
    /\ seen.fresh
    /\ log = <<>>
    /\ result.kind = "ok"
    /\ result.val.rows # <<>>
    /\ cache.text = to_json(result.val)

(* C6: with a cache file that is 7 days old or older, or corrupt,
   list_domains never serves the cached content: it invokes the provider's
   domain listing, and a non-empty provider result is written to the cache
   file before it is returned. *)
C6_StaleOrCorruptGoesToProvider ==
    [][ /\ (StartListDomains /\ is_ready /\ cache.exists
               /\ (~CacheFresh \/ ~Deserializes))
           => (pc' = "call" /\ fn' = "list_domain")
        /\ (CallReturns /\ op = "list_domains"
               /\ result'.kind = "ok" /\ result'.val.rows # <<>>)
           => cache' = WrittenCache(result'.val, now)
      ]_vars

(* C7: no failure of reading or deserializing the cache file reaches the
   caller of list_domains: a call that ended before any provider call
   either served a list of domain records or failed for the missing
   credential alone. *)
C7_ReadFailuresAreMisses ==
    ( /\ op = "list_domains"
      /\ pc = "done"
      /\ log = <<>> )
    => /\ result.kind = "exc" => (result.exc = Exc("ApiTokenError") /\ ~is_ready)
       /\ result.kind = "ok" => \A i \in 1..Len(result.val.rows) :
                                    result.val.rows[i] # ScalarRow

(* C8: a failure to persist the fetched domain list is not fatal: when the
   provider call of list_domains returned, list_domains returns. *)
C8_PersistFailureIsNotFatal ==
    ( /\ op = "list_domains"
      /\ pc = "done"
      /\ log # <<>>
      /\ log[Len(log)].out = NoExc )
    => result.kind = "ok"

(* C9: a list_domains call that reads the cache file while another process
   is writing it never returns half-written content and never fails in the
   read: it returns a list that is the whole of what the file holds, one
   a writer wrote in full, or goes on as on a cache miss (the provider
   call, or the missing-credential error). *)
C9_ReaderBesideWriter ==
    [][ (StartListDomains /\ ext.pc = "writing")
        => \/ pc' = "call" /\ is_ready
           \/ pc' = "done" /\ ~is_ready /\ result' = Raise(Exc("ApiTokenError"))
           \/ /\ pc' = "done"
              /\ result'.kind = "ok"
              /\ result'.val.rows \in DomainLists
              /\ cache.text = to_json(result'.val)
      ]_vars

C9_Witness ==
    /\ op = "list_domains"
    /\ seen.partial
    /\ seen.fresh
    /\ seen.how = "miss"
    /\ pc = "call"

----------------------------------------------------------------------------
(* Property of the readiness check *)

Calling == {"call", "sleep", "gather", "lookup"}

(* C10: a client that holds no credential makes no provider call and no
   retry, and each provider-backed operation, list_domains on a cache miss
   included, fails with ApiTokenError. *)
C10_NoCredentialNoCall ==
    client = "None" =>
       /\ log = <<>>
       /\ pc \notin Calling
       /\ (pc = "done" /\ (op = "list_domains" => seen.how = "miss"))
             => result = Raise(Exc("ApiTokenError"))

C10_Witness ==
    /\ client = "None"
    /\ op = "list_domains"
    /\ seen.how = "miss"
    /\ pc = "done"
    /\ log = <<>>
    /\ result = Raise(Exc("ApiTokenError"))

----------------------------------------------------------------------------
(* Property of the credential *)

(* C11: the credential is fixed at construction: the key of every provider
   call and of every lookup request a client sends is the token the client
   was constructed with, whatever the stored configuration holds by then. *)
C11_KeyIsTheConstructedToken ==
    \A i \in 1..Len(log) :
       log[i].ev \in {"call", "request"} => log[i].key = token

----------------------------------------------------------------------------
(* Properties of the error taxonomy *)

(* The provider failure an operation ended on: the outcome of its last
   provider call or lookup *)
EndedOnFailure ==
    /\ pc = "done"
    /\ log # <<>>
    /\ log[Len(log)].ev \in {"call", "failed"}
    /\ log[Len(log)].out # NoExc

LastFailure == log[Len(log)].out

(* C12: a provider failure that reaches the caller is reclassified by kind,
   in list_domains as in the wrapped operations: HTTP 401 is ApiTokenError,
   a status of 500 or more is BpsServerError, a connection failure and a
   timeout are NoInternetError. *)
C12_FailuresReclassified ==
    EndedOnFailure =>
       /\ LastFailure = HTTPError(401) => result = Raise(Exc("ApiTokenError"))
       /\ (LastFailure.cls = "HTTPError" /\ LastFailure.status >= 500)
             => result = Raise(Exc("BpsServerError"))
       /\ LastFailure.cls = "ConnectionError" => result = Raise(Exc("NoInternetError"))
       /\ LastFailure.cls = "Timeout" => result = Raise(Exc("NoInternetError"))

C12_Witness ==
    /\ EndedOnFailure
    /\ op = "get_dynamic_table_metadata"
    /\ LastFailure = HTTPError(500)
    /\ result = Raise(Exc("BpsServerError"))

TypedErrors ==
    {"ApiTokenError", "BpsServerError", "NoInternetError", "BpsApiDataError",
     "FileExistsError"}

(* C13: every failure a public operation surfaces is a typed error of the
   taxonomy; no raw HTTP error reaches the caller. *)
C13_OnlyTypedErrors ==
    (pc = "done" /\ result.kind = "exc") => result.exc.cls \in TypedErrors

----------------------------------------------------------------------------
(* Properties of get_dynamic_table_metadata *)

(* C14: the four lookups of one domain are a full barrier: the operation
   has not ended, by a return or by a raise, while one of its lookups is
   still outstanding. *)
C14_GatherIsABarrier ==
    (op = "get_dynamic_table_metadata" /\ pc = "done")
    => \A m \in ModelSet : fetches[m] # "flight"

(* The metadata operation ended with every lookup answered and every
   response normalized *)
Requested == args.domain_id

Aggregated ==
    /\ op = "get_dynamic_table_metadata"
    /\ pc = "done"
    /\ Requested \in Domains
    /\ \A m \in ModelSet : fetches[m] = "done"
    /\ \A i \in 1..Len(log) : log[i].ev # "failed"
    /\ fetch_for_domain(Requested).exc = NoExc
    /\ fetch_for_domain("0000").exc = NoExc

(* C15: for a requested domain other than "0000" with an empty vertical,
   horizontal or year list, while the three lists of "0000" are non-empty,
   the operation returns the "0000" result, derived years included, with
   source_domain "0000". *)
C15_FallbackToNational ==
    ( /\ Aggregated
      /\ Requested # "0000"
      /\ Incomplete(fetch_for_domain(Requested).md)
      /\ ~Incomplete(fetch_for_domain("0000").md) )
    => /\ result.kind = "ok"
       /\ result.val = fetch_for_domain("0000").md
       /\ result.val.source_domain = "0000"
       /\ Sent("vervar", Requested) = 1
       /\ Sent("vervar", "0000") = 1

C15_Witness ==
    /\ Aggregated
    /\ Requested = "3500"
    /\ Incomplete(fetch_for_domain("3500").md)
    /\ result.kind = "ok"
    /\ result.val.source_domain = "0000"
    /\ result.val.derived_years # <<>>

(* C16: with the requested domain and "0000" both incomplete the operation
   fails with BpsApiDataError; so it does when the requested domain is
   "0000" itself and incomplete, and then no second fetch is made. *)
C16_IncompleteEverywhere ==
    ( /\ Aggregated
      /\ Incomplete(fetch_for_domain(Requested).md)
      /\ Incomplete(fetch_for_domain("0000").md) )
    => /\ result = Raise(Exc("BpsApiDataError"))
       /\ Requested = "0000" => Len(log) = Len(Models)
       /\ Requested # "0000" => Len(log) = 2 * Len(Models)

C16_Witness ==
    /\ Aggregated
    /\ Requested = "3500"
    /\ Incomplete(fetch_for_domain("3500").md)
    /\ Incomplete(fetch_for_domain("0000").md)
    /\ Len(log) = 2 * Len(Models)
    /\ result = Raise(Exc("BpsApiDataError"))

(* C17: per-category normalization never raises: whatever the shape of a
   lookup response, extract_list returns a list, and the operation that
   received the four responses does not end in an error of extract_list. *)
C17_NormalizationNeverRaises ==
    ( /\ op = "get_dynamic_table_metadata"
      /\ pc = "done"
      /\ \A m \in ModelSet : fetches[m] = "done" )
    => /\ \A m \in ModelSet :
             extract_list(remote[target][m], Mapping(m)).exc = NoExc
       /\ result.kind = "exc"
             => result.exc.cls \notin {"TypeError", "AttributeError"}

----------------------------------------------------------------------------
(* Properties of get_dynamic_table_data and of the returned tables *)

(* The data lookup was answered: the response the operation worked on *)
DataAnswered ==
    /\ op = "get_dynamic_table_data"
    /\ pc = "done"
    /\ Len(log) = 1
    /\ log[1].ev = "request"

DataResponse == remote[log[1].domain]["data"]

Datacontent == PyGet(DataResponse, "datacontent", PyNone)

(* C18: a datacontent key of 19 characters or more decodes by position:
   domain [0,4), year [4,6), vertical_group [6,8), vertical_item [8,13),
   horizontal [13,16), derived [16,19), six segments that make up the first
   19 characters; the operation returns one record per key, with these
   segments, the value of the key and the key itself. *)
C18_KeysDecodeByPosition ==
    (DataAnswered /\ result.kind = "ok") =>
       LET keys == Datacontent.keys
           rows == result.val.rows
       IN /\ Len(rows) = Len(keys)
          /\ \A i \in 1..Len(keys) :
                /\ rows[i].raw_key = keys[i]
                /\ rows[i].value = Datacontent.d[keys[i]]
                /\ Len(keys[i]) >= 19 =>
                      /\ rows[i].domain = SubSeq(keys[i], 1, 4)
                      /\ rows[i].year = SubSeq(keys[i], 5, 6)
                      /\ rows[i].vertical_group = SubSeq(keys[i], 7, 8)
                      /\ rows[i].vertical_item = SubSeq(keys[i], 9, 13)
                      /\ rows[i].horizontal = SubSeq(keys[i], 14, 16)
                      /\ rows[i].derived = SubSeq(keys[i], 17, 19)
                      /\ rows[i].domain \o rows[i].year \o rows[i].vertical_group
                            \o rows[i].vertical_item \o rows[i].horizontal
                            \o rows[i].derived = SubSeq(keys[i], 1, 19)

C18_Witness ==
    /\ DataAnswered
    /\ result.kind = "ok"
    /\ Len(result.val.rows) = 2
    /\ Len(result.val.rows[2].raw_key) > 19
    /\ result.val.rows[2].year = <<2, 3>>
    /\ result.val.rows[2].derived = <<0, 0, 0>>
    /\ result.val.rows[2].value = 71

(* C19: a table returned successfully is never empty: the data operation
   fails with BpsApiDataError when the flag is not "available", when
   datacontent is missing or is not a mapping, and when it has no keys;
   view_static_table fails when the provider's result is empty or is not a
   table. *)
C19_ReturnedTablesAreNotEmpty ==
    /\ ( /\ pc = "done"
         /\ op \in {"get_dynamic_table_data", "view_static_table"}
         /\ result.kind = "ok" )
       => /\ result.val.type = "DataFrame"
          /\ result.val.rows # <<>>
    /\ ( /\ DataAnswered
         /\ \/ PyGet(DataResponse, "data-availability", PyNone) # PyStr("available")
            \/ "datacontent" \notin DOMAIN DataResponse.d
            \/ Datacontent.py # "dict"
            \/ Datacontent.keys = <<>> )
       => result = Raise(Exc("BpsApiDataError"))
    /\ ( /\ op = "view_static_table"
         /\ pc = "done"
         /\ log # <<>>
         /\ log[Len(log)].out = NoExc
         /\ result.kind = "exc" )
       => result = Raise(Exc("BpsApiDataError"))

C19_Witness ==
    /\ DataAnswered
    /\ PyGet(DataResponse, "data-availability", PyNone) = PyStr("available")
    /\ Datacontent.py = "dict"
    /\ Datacontent.keys = <<>>
    /\ result = Raise(Exc("BpsApiDataError"))

(* C20: the data lookup goes to the effective domain of the metadata:
   get_dynamic_table_data requests source_domain when it is given and
   domain_id otherwise, and the table builder, having obtained metadata,
   passes the source_domain of that metadata: its generate step is
   available, and once generate_table has run the data was requested for
   that source_domain ("0000" after a fallback), not for another domain. *)
C20_DataFromTheMetadataDomain ==
    /\ ( /\ op = "get_dynamic_table_data"
         /\ log # <<>>
         /\ log[1].ev = "request" )
       => log[1].domain = IF args.source_domain # "None"
                          THEN args.source_domain ELSE args.domain_id
    /\ ( /\ screen.state = "shown"
         /\ screen.metadata # NoMeta )
       => /\ ~screen.disabled
          /\ screen.preview # "" => screen.requested = screen.metadata.source_domain

(* The last provider call of the operation returned: the operation has the
   provider's answer in hand *)
TableObtained == log # <<>> /\ IsCall(log[Len(log)]) /\ log[Len(log)].out = NoExc

(* C21: download_table with overwrite=False against a path that exists
   never writes to the path and never succeeds: the file keeps its bytes at
   every step of the call, and the call that obtained its table from
   view_static_table ends with FileExistsError. *)
C21_NoOverwriteLeavesTheFile ==
    [][ ( /\ op' = "download_table"
          /\ dest.exists
          /\ ~args'.overwrite )
        => /\ dest' = dest
           /\ pc' = "done"
                => /\ result'.kind = "exc"
                   /\ TableObtained' =>
                         result'.exc.cls \in {"FileExistsError", "BpsApiDataError"} ]_vars

C21_Witness ==
    /\ op = "download_table"
    /\ pc = "done"
    /\ ~args.overwrite
    /\ dest.exists
    /\ result = Raise(Exc("FileExistsError"))

(* C22: an export with a format other than csv, xlsx and json fails with
   ValueError, writes no file and is never reported as saved, on both export
   paths: no file at the path holds another format, download_table with
   such a format ends with an exception (ValueError once it has its table
   and may write to the path), and perform_dynamic_download with such a
   format reports an error, not "Download Berhasil". *)
C22_UnsupportedFormatFails ==
    /\ dest.exists => dest.bytes.format \in Formats
    /\ ( /\ op = "download_table"
         /\ pc = "done"
         /\ args.format \notin Formats )
       => /\ result.kind = "exc"
          /\ TableObtained =>
                result.exc.cls \in {"ValueError", "FileExistsError", "BpsApiDataError"}
    /\ screen.file_format \notin Formats \cup {""}
       => screen.notice = "Download Error"

(* C23: _clean_bps_dataframe is idempotent on flat, non-empty tables: what
   it returned for such a table (and for any table it returned) is returned
   unchanged, in column labels, row content and row numbering, when it is
   applied again. *)
C23_NormalizationIsIdempotent ==
    ( /\ op = "_clean_bps_dataframe"
      /\ pc = "done" )
    => /\ _clean_bps_dataframe(result.val) = result.val
       /\ args.df \notin FlatTables => result.val = args.df

(* The second pass over a table whose first column the first pass named *)
C23_Witness ==
    /\ op = "_clean_bps_dataframe"
    /\ pc = "done"
    /\ args.df.columns[1] = Unnamed(0)
    /\ args.df.rows # <<>>
    /\ result.val = args.df

(* The requests of a second gather are in the log *)
FallbackIssued ==
    \E i \in (Len(Models) + 1)..Len(log) : log[i].ev = "request"

(* The gather for the requested domain returned and its lists were
   extracted *)
FirstFetchReturned ==
    /\ Len(log) >= Len(Models)
    /\ ~(Len(log) > Len(Models) /\ log[Len(Models) + 1].ev = "failed")
    /\ fetch_for_domain(Requested).exc = NoExc

(* C24: metadata that get_dynamic_table_metadata returns has non-empty
   vertical_vars, horizontal_vars and years, is in all its lists the result
   of the one domain its source_domain names, and that domain is the
   requested one or "0000"; the fetch against "0000" is made after a first
   fetch if and only if the requested domain's result is incomplete and the
   requested domain is not "0000". *)
C24_MetadataOfOneDomain ==
    op = "get_dynamic_table_metadata"
    => /\ (pc = "done" /\ result.kind = "ok")
          => /\ ~Incomplete(result.val)
             /\ result.val.source_domain \in {Requested, "0000"}
             /\ result.val = fetch_for_domain(result.val.source_domain).md
       /\ FallbackIssued
          => /\ Requested # "0000"
             /\ fetch_for_domain(Requested).exc = NoExc
             /\ Incomplete(fetch_for_domain(Requested).md)
       /\ ( /\ pc = "done"
            /\ FirstFetchReturned
            /\ Requested # "0000"
            /\ Incomplete(fetch_for_domain(Requested).md) )
          => FallbackIssued

(* Returned after a fallback, while the requested domain had a list of its
   own that the result does not hold *)
C24_Witness ==
    /\ op = "get_dynamic_table_metadata"
    /\ pc = "done"
    /\ result.kind = "ok"
    /\ Requested = "3500"
    /\ FallbackIssued
    /\ result.val.source_domain = "0000"
    /\ fetch_for_domain("3500").md.vertical_vars # <<>>
    /\ fetch_for_domain("3500").md.vertical_vars # result.val.vertical_vars

(* C28: a step of the client changes the cache file only at the end of a
   list_domains call whose provider call returned a non-empty list, and
   then to that list with the time of the call; a call served from the
   cache, a call that fails and a call that got an empty list leave the
   content and the timestamp of the file as they were. *)
C28_OnlyAFetchedListIsCached ==
    [][ (cache' # cache /\ ext' = ext)
        => /\ op = "list_domains"
           /\ pc = "call"
           /\ pc' = "done"
           /\ TableObtained'
           /\ result'.kind = "ok"
           /\ result'.val.rows # <<>>
           /\ cache' = WrittenCache(result'.val, now) ]_vars

(* A stale file was replaced by the list the provider returned *)
C28_Witness ==
    /\ op = "list_domains"
    /\ pc = "done"
    /\ TableObtained
    /\ seen.how = "miss"
    /\ ~seen.fresh
    /\ result.kind = "ok"
    /\ cache = WrittenCache(result.val, now)
    /\ result.val.rows # OldRows

(* A load that handle_row_selection started is waiting for its fetch *)
SelectionFetch(e) == e.load.by = "selection"

(* C25: row selections on the DataExplorer serialize against themselves:
   while a fetch that a selection started is in flight the selection lock
   is held and it is the only load, such a fetch starts only when no
   selection is being handled and no load is running, and a RowSelected
   handled while the lock is held is dropped: it starts no fetch and
   changes nothing. *)
C25_SelectionsSerialize ==
    [][ /\ SelectionFetch(explorer')
           => explorer'.locked /\ explorer'.running = 1
        /\ (SelectionFetch(explorer') /\ ~SelectionFetch(explorer))
           => ~explorer.locked /\ explorer.load = NoLoad
        /\ (explorer'.pending < explorer.pending /\ explorer.locked)
           => /\ explorer' = [explorer EXCEPT !.pending = @ - 1, !.handled = "locked"]
              /\ UNCHANGED outside ]_vars

(* A second RowSelected was dropped while the fetch of the first is in
   flight *)
C25_Witness ==
    /\ SelectionFetch(explorer)
    /\ explorer.locked
    /\ explorer.is_loading
    /\ explorer.handled = "locked"
    /\ pc = "call"

(* C26: in every interleaving of display_domains, _load_table_list, table
   type changes and row selections at most one list load is in flight,
   is_loading is true exactly while a load is running, and a load that
   started resets is_loading in the end, whether its fetch returned or
   raised. *)
C26_OneLoadAndItEnds ==
    /\ [](/\ explorer.running <= 1
          /\ explorer.is_loading <=> explorer.running = 1
          /\ explorer.is_loading <=> explorer.load # NoLoad)
    /\ explorer.is_loading ~> ~explorer.is_loading

(* A load of a table list has failed, after the table type was changed, and
   the explorer can load again *)
C26_Witness ==
    /\ op \in {"list_static_tables", "list_dynamic_tables"}
    /\ pc = "done"
    /\ result.kind = "exc"
    /\ explorer.load = NoLoad
    /\ ~explorer.is_loading
    /\ explorer.running = 0
    /\ explorer.shown = "none"
    /\ explorer.pressed = "dynamic"
    /\ explorer.handled = "loading"

(* C27: the message a row selection posts matches the list in the table:
   TableSelected is posted only for a row of a list of static tables and
   DynamicTableSelected only for a row of a list of dynamic tables, also
   when the table type was changed while a load was in flight. *)
C27_MessageMatchesTheList ==
    /\ explorer.posted = "TableSelected" => explorer.posted_for = "static"
    /\ explorer.posted = "DynamicTableSelected" => explorer.posted_for = "dynamic"

====
